---- MODULE Spec2Model ----
(***************************************************************************)
(* Error layer of RustaCUDA (src/error.rs): the CudaError enumeration,     *)
(* the status conversion ToResult::to_result and the Display rendering,    *)
(* exercised by a caller against a mocked driver message lookup            *)
(* (cuGetErrorString).                                                     *)
(*                                                                         *)
(* Text is modelled as sequences of bytes (ASCII codes), a CudaError value *)
(* as its variant name, and `K as u32` as Discr(K).                        *)
(***************************************************************************)
EXTENDS Integers, Sequences, FiniteSets, TLC

VARIABLES
    op,         \* the call the caller made last: "none", "to_result", "fmt"
    status,     \* to_result: the raw driver status passed in (self)
    result,     \* to_result: the CudaResult<()> returned
    kind,       \* fmt: the CudaError rendered (*self)
    out,        \* fmt: the bytes written to the Formatter f
    fmtResult,  \* fmt: the fmt::Result returned: "Ok", "Err" ("None": no call)
    lookups,    \* fmt: the status codes passed to cuGetErrorString, in order
    ptrRead,    \* fmt: whether CStr::from_ptr(ptr) read the message pointer
    driver,     \* the mocked driver's message table
    hist        \* the calls made so far, each with its input and its outcome

vars == <<op, status, result, kind, out, fmtResult, lookups, ptrRead, driver, hist>>

(***************************************************************************)
(* Bounds of the exploration.                                              *)
(***************************************************************************)
\* longest message the mocked driver holds
MaxMsgLen == 1
\* statuses 0..MaxStatus are all fed to to_result
MaxStatus == 1023
\* calls recorded in hist
MaxHist == 3

(***************************************************************************)
(* enum CudaError: the variants in declaration order, each with its        *)
(* explicit discriminant when it has one.                                  *)
(***************************************************************************)
\* the variants under "// CUDA errors"
CudaErrors ==
    << <<"InvalidValue", 1>>,
       <<"OutOfMemory", 2>>,
       <<"NotInitialized", 3>>,
       <<"Deinitialized", 4>>,
       <<"ProfilerDisabled", 5>>,
       <<"ProfilerNotInitialized", 6>>,
       <<"ProfilerAlreadyStarted", 7>>,
       <<"ProfilerAlreadyStopped", 8>>,
       <<"NoDevice", 100>>,
       <<"InvalidDevice", 101>>,
       <<"InvalidImage", 200>>,
       <<"InvalidContext", 201>>,
       <<"ContextAlreadyCurrent", 202>>,
       <<"MapFailed", 205>>,
       <<"UnmapFailed", 206>>,
       <<"ArrayIsMapped", 207>>,
       <<"AlreadyMapped", 208>>,
       <<"NoBinaryForGpu", 209>>,
       <<"AlreadyAcquired", 210>>,
       <<"NotMapped", 211>>,
       <<"NotMappedAsArray", 212>>,
       <<"NotMappedAsPointer", 213>>,
       <<"EccUncorrectable", 214>>,
       <<"UnsupportedLimit", 215>>,
       <<"ContextAlreadyInUse", 216>>,
       <<"PeerAccessUnsupported", 217>>,
       <<"InvalidPtx", 218>>,
       <<"InvalidGraphicsContext", 219>>,
       <<"NvlinkUncorrectable", 220>>,
       <<"InvalidSouce", 300>>,
       <<"FileNotFound", 301>>,
       <<"SharedObjectSymbolNotFound", 302>>,
       <<"SharedObjectInitFailed", 303>>,
       <<"OperatingSystemError", 304>>,
       <<"InvalidHandle", 400>>,
       <<"NotFound", 500>>,
       <<"NotReady", 600>>,
       <<"IllegalAddress", 700>>,
       <<"LaunchOutOfResources", 701>>,
       <<"LaunchTimeout", 702>>,
       <<"LaunchIncompatibleTexturing", 703>>,
       <<"PeerAccessAlreadyEnabled", 704>>,
       <<"PeerAccessNotEnabled", 705>>,
       <<"PrimaryContextActive", 708>>,
       <<"ContextIsDestroyed", 709>>,
       <<"AssertError", 710>>,
       <<"TooManyPeers", 711>>,
       <<"HostMemoryAlreadyRegistered", 712>>,
       <<"HostMemoryNotRegistered", 713>>,
       <<"HardwareStackError", 714>>,
       <<"IllegalInstruction", 715>>,
       <<"MisalignedAddress", 716>>,
       <<"InvalidAddressSpace", 717>>,
       <<"InvalidProgramCounter", 718>>,
       <<"LaunchFailed", 719>>,
       <<"NotPermitted", 800>>,
       <<"NotSupported", 801>>,
       <<"SystemNotReady", 802>>,
       <<"SystemDriverMismatch", 803>>,
       <<"CompatNotSupportedOnDevice", 804>>,
       <<"StreamCaptureUnsupported", 900>>,
       <<"StreamCaptureInvalidated", 901>>,
       <<"StreamCaptureMerge", 902>>,
       <<"StreamCaptureUnmatched", 903>>,
       <<"StreamCaptureUnjoined", 904>>,
       <<"StreamCaptureIsolation", 905>>,
       <<"StreamCaptureImplicit", 906>>,
       <<"CapturedEvent", 907>>,
       <<"StreamCaptureWrongThread", 908>>,
       <<"Timeout", 909>>,
       <<"GraphExecUpdateFailure", 910>>,
       <<"UnknownError", 999>> >>

\* the variants under "// RustaCUDA errors"
RustaCudaErrors ==
    << <<"InvalidMemoryAllocation", 100100>>,
       <<"__Nonexhaustive">> >>

CudaErrorDecl == CudaErrors \o RustaCudaErrors

Variants == { CudaErrorDecl[i][1] : i \in 1..Len(CudaErrorDecl) }

DriverKinds == { CudaErrors[i][1] : i \in 1..Len(CudaErrors) }

BindingKinds == { RustaCudaErrors[i][1] : i \in 1..Len(RustaCudaErrors) }

\* a variant without an explicit discriminant numbered by its position
DiscrAtByPosition(i) ==
    IF Len(CudaErrorDecl[i]) = 2 THEN CudaErrorDecl[i][2] ELSE i - 1

\* the discriminant of the i-th declared variant: the explicit one, or one
\* more than the previous variant's (0 for a first variant without one)
RECURSIVE DiscrAt(_)
DiscrAt(i) ==
    IF Len(CudaErrorDecl[i]) = 2 THEN CudaErrorDecl[i][2]
    ELSE IF i = 1 THEN 0
    ELSE DiscrAt(i - 1) + 1

\* the discriminant of every variant
Discriminants ==
    [k \in Variants |->
        DiscrAt(CHOOSE i \in 1..Len(CudaErrorDecl) : CudaErrorDecl[i][1] = k)]

\* `k as u32`
Discr(k) == Discriminants[k]

(***************************************************************************)
(* cuda_sys::cudaError_enum: the driver's status constants to_result       *)
(* names, with the values the driver API gives them.                       *)
(***************************************************************************)
cudaError_t ==
    << <<"CUDA_SUCCESS", 0>>,
       <<"CUDA_ERROR_INVALID_VALUE", 1>>,
       <<"CUDA_ERROR_OUT_OF_MEMORY", 2>>,
       <<"CUDA_ERROR_NOT_INITIALIZED", 3>>,
       <<"CUDA_ERROR_DEINITIALIZED", 4>>,
       <<"CUDA_ERROR_PROFILER_DISABLED", 5>>,
       <<"CUDA_ERROR_PROFILER_NOT_INITIALIZED", 6>>,
       <<"CUDA_ERROR_PROFILER_ALREADY_STARTED", 7>>,
       <<"CUDA_ERROR_PROFILER_ALREADY_STOPPED", 8>>,
       <<"CUDA_ERROR_NO_DEVICE", 100>>,
       <<"CUDA_ERROR_INVALID_DEVICE", 101>>,
       <<"CUDA_ERROR_INVALID_IMAGE", 200>>,
       <<"CUDA_ERROR_INVALID_CONTEXT", 201>>,
       <<"CUDA_ERROR_CONTEXT_ALREADY_CURRENT", 202>>,
       <<"CUDA_ERROR_MAP_FAILED", 205>>,
       <<"CUDA_ERROR_UNMAP_FAILED", 206>>,
       <<"CUDA_ERROR_ARRAY_IS_MAPPED", 207>>,
       <<"CUDA_ERROR_ALREADY_MAPPED", 208>>,
       <<"CUDA_ERROR_NO_BINARY_FOR_GPU", 209>>,
       <<"CUDA_ERROR_ALREADY_ACQUIRED", 210>>,
       <<"CUDA_ERROR_NOT_MAPPED", 211>>,
       <<"CUDA_ERROR_NOT_MAPPED_AS_ARRAY", 212>>,
       <<"CUDA_ERROR_NOT_MAPPED_AS_POINTER", 213>>,
       <<"CUDA_ERROR_ECC_UNCORRECTABLE", 214>>,
       <<"CUDA_ERROR_UNSUPPORTED_LIMIT", 215>>,
       <<"CUDA_ERROR_CONTEXT_ALREADY_IN_USE", 216>>,
       <<"CUDA_ERROR_PEER_ACCESS_UNSUPPORTED", 217>>,
       <<"CUDA_ERROR_INVALID_PTX", 218>>,
       <<"CUDA_ERROR_INVALID_GRAPHICS_CONTEXT", 219>>,
       <<"CUDA_ERROR_NVLINK_UNCORRECTABLE", 220>>,
       <<"CUDA_ERROR_INVALID_SOURCE", 300>>,
       <<"CUDA_ERROR_FILE_NOT_FOUND", 301>>,
       <<"CUDA_ERROR_SHARED_OBJECT_SYMBOL_NOT_FOUND", 302>>,
       <<"CUDA_ERROR_SHARED_OBJECT_INIT_FAILED", 303>>,
       <<"CUDA_ERROR_OPERATING_SYSTEM", 304>>,
       <<"CUDA_ERROR_INVALID_HANDLE", 400>>,
       <<"CUDA_ERROR_NOT_FOUND", 500>>,
       <<"CUDA_ERROR_NOT_READY", 600>>,
       <<"CUDA_ERROR_ILLEGAL_ADDRESS", 700>>,
       <<"CUDA_ERROR_LAUNCH_OUT_OF_RESOURCES", 701>>,
       <<"CUDA_ERROR_LAUNCH_TIMEOUT", 702>>,
       <<"CUDA_ERROR_LAUNCH_INCOMPATIBLE_TEXTURING", 703>>,
       <<"CUDA_ERROR_PEER_ACCESS_ALREADY_ENABLED", 704>>,
       <<"CUDA_ERROR_PEER_ACCESS_NOT_ENABLED", 705>>,
       <<"CUDA_ERROR_PRIMARY_CONTEXT_ACTIVE", 708>>,
       <<"CUDA_ERROR_CONTEXT_IS_DESTROYED", 709>>,
       <<"CUDA_ERROR_ASSERT", 710>>,
       <<"CUDA_ERROR_TOO_MANY_PEERS", 711>>,
       <<"CUDA_ERROR_HOST_MEMORY_ALREADY_REGISTERED", 712>>,
       <<"CUDA_ERROR_HOST_MEMORY_NOT_REGISTERED", 713>>,
       <<"CUDA_ERROR_HARDWARE_STACK_ERROR", 714>>,
       <<"CUDA_ERROR_ILLEGAL_INSTRUCTION", 715>>,
       <<"CUDA_ERROR_MISALIGNED_ADDRESS", 716>>,
       <<"CUDA_ERROR_INVALID_ADDRESS_SPACE", 717>>,
       <<"CUDA_ERROR_INVALID_PC", 718>>,
       <<"CUDA_ERROR_LAUNCH_FAILED", 719>>,
       <<"CUDA_ERROR_NOT_PERMITTED", 800>>,
       <<"CUDA_ERROR_NOT_SUPPORTED", 801>> >>


StatusValue(name) ==
    LET i == CHOOSE j \in 1..Len(cudaError_t) : cudaError_t[j][1] = name
    IN  cudaError_t[i][2]

CUDA_SUCCESS == StatusValue("CUDA_SUCCESS")

(***************************************************************************)
(* ToResult::to_result: the arms of the match, in order; the last arm      *)
(* `_ => Err(CudaError::UnknownError)` takes every other status.           *)
(***************************************************************************)
to_result_arms ==
    << <<"CUDA_SUCCESS", "Ok">>,
       <<"CUDA_ERROR_INVALID_VALUE", "InvalidValue">>,
       <<"CUDA_ERROR_OUT_OF_MEMORY", "OutOfMemory">>,
       <<"CUDA_ERROR_NOT_INITIALIZED", "NotInitialized">>,
       <<"CUDA_ERROR_DEINITIALIZED", "Deinitialized">>,
       <<"CUDA_ERROR_PROFILER_DISABLED", "ProfilerDisabled">>,
       <<"CUDA_ERROR_PROFILER_NOT_INITIALIZED", "ProfilerNotInitialized">>,
       <<"CUDA_ERROR_PROFILER_ALREADY_STARTED", "ProfilerAlreadyStarted">>,
       <<"CUDA_ERROR_PROFILER_ALREADY_STOPPED", "ProfilerAlreadyStopped">>,
       <<"CUDA_ERROR_NO_DEVICE", "NoDevice">>,
       <<"CUDA_ERROR_INVALID_DEVICE", "InvalidDevice">>,
       <<"CUDA_ERROR_INVALID_IMAGE", "InvalidImage">>,
       <<"CUDA_ERROR_INVALID_CONTEXT", "InvalidContext">>,
       <<"CUDA_ERROR_CONTEXT_ALREADY_CURRENT", "ContextAlreadyCurrent">>,
       <<"CUDA_ERROR_MAP_FAILED", "MapFailed">>,
       <<"CUDA_ERROR_UNMAP_FAILED", "UnmapFailed">>,
       <<"CUDA_ERROR_ARRAY_IS_MAPPED", "ArrayIsMapped">>,
       <<"CUDA_ERROR_ALREADY_MAPPED", "AlreadyMapped">>,
       <<"CUDA_ERROR_NO_BINARY_FOR_GPU", "NoBinaryForGpu">>,
       <<"CUDA_ERROR_ALREADY_ACQUIRED", "AlreadyAcquired">>,
       <<"CUDA_ERROR_NOT_MAPPED", "NotMapped">>,
       <<"CUDA_ERROR_NOT_MAPPED_AS_ARRAY", "NotMappedAsArray">>,
       <<"CUDA_ERROR_NOT_MAPPED_AS_POINTER", "NotMappedAsPointer">>,
       <<"CUDA_ERROR_ECC_UNCORRECTABLE", "EccUncorrectable">>,
       <<"CUDA_ERROR_UNSUPPORTED_LIMIT", "UnsupportedLimit">>,
       <<"CUDA_ERROR_CONTEXT_ALREADY_IN_USE", "ContextAlreadyInUse">>,
       <<"CUDA_ERROR_PEER_ACCESS_UNSUPPORTED", "PeerAccessUnsupported">>,
       <<"CUDA_ERROR_INVALID_PTX", "InvalidPtx">>,
       <<"CUDA_ERROR_INVALID_GRAPHICS_CONTEXT", "InvalidGraphicsContext">>,
       <<"CUDA_ERROR_NVLINK_UNCORRECTABLE", "NvlinkUncorrectable">>,
       <<"CUDA_ERROR_INVALID_SOURCE", "InvalidSouce">>,
       <<"CUDA_ERROR_FILE_NOT_FOUND", "FileNotFound">>,
       <<"CUDA_ERROR_SHARED_OBJECT_SYMBOL_NOT_FOUND", "SharedObjectSymbolNotFound">>,
       <<"CUDA_ERROR_SHARED_OBJECT_INIT_FAILED", "SharedObjectInitFailed">>,
       <<"CUDA_ERROR_OPERATING_SYSTEM", "OperatingSystemError">>,
       <<"CUDA_ERROR_INVALID_HANDLE", "InvalidHandle">>,
       <<"CUDA_ERROR_NOT_FOUND", "NotFound">>,
       <<"CUDA_ERROR_NOT_READY", "NotReady">>,
       <<"CUDA_ERROR_ILLEGAL_ADDRESS", "IllegalAddress">>,
       <<"CUDA_ERROR_LAUNCH_OUT_OF_RESOURCES", "LaunchOutOfResources">>,
       <<"CUDA_ERROR_LAUNCH_TIMEOUT", "LaunchTimeout">>,
       <<"CUDA_ERROR_LAUNCH_INCOMPATIBLE_TEXTURING", "LaunchIncompatibleTexturing">>,
       <<"CUDA_ERROR_PEER_ACCESS_ALREADY_ENABLED", "PeerAccessAlreadyEnabled">>,
       <<"CUDA_ERROR_PEER_ACCESS_NOT_ENABLED", "PeerAccessNotEnabled">>,
       <<"CUDA_ERROR_PRIMARY_CONTEXT_ACTIVE", "PrimaryContextActive">>,
       <<"CUDA_ERROR_CONTEXT_IS_DESTROYED", "ContextIsDestroyed">>,
       <<"CUDA_ERROR_ASSERT", "AssertError">>,
       <<"CUDA_ERROR_TOO_MANY_PEERS", "TooManyPeers">>,
       <<"CUDA_ERROR_HOST_MEMORY_ALREADY_REGISTERED", "HostMemoryAlreadyRegistered">>,
       <<"CUDA_ERROR_HOST_MEMORY_NOT_REGISTERED", "HostMemoryNotRegistered">>,
       <<"CUDA_ERROR_HARDWARE_STACK_ERROR", "HardwareStackError">>,
       <<"CUDA_ERROR_ILLEGAL_INSTRUCTION", "IllegalInstruction">>,
       <<"CUDA_ERROR_MISALIGNED_ADDRESS", "MisalignedAddress">>,
       <<"CUDA_ERROR_INVALID_ADDRESS_SPACE", "InvalidAddressSpace">>,
       <<"CUDA_ERROR_INVALID_PC", "InvalidProgramCounter">>,
       <<"CUDA_ERROR_LAUNCH_FAILED", "LaunchFailed">>,
       <<"CUDA_ERROR_NOT_PERMITTED", "NotPermitted">>,
       <<"CUDA_ERROR_NOT_SUPPORTED", "NotSupported">> >>

Ok == [tag |-> "Ok", kind |-> ""]

Err(k) == [tag |-> "Err", kind |-> k]

NoResult == [tag |-> "None", kind |-> ""]

\* the status each arm's pattern stands for
ArmStatus == [i \in 1..Len(to_result_arms) |-> StatusValue(to_result_arms[i][1])]

\* the right-hand side of the first arm whose pattern is self; "" when only
\* the `_` arm is left
ArmOf(self) ==
    IF \E i \in 1..Len(to_result_arms) : ArmStatus[i] = self
    THEN LET first == CHOOSE i \in 1..Len(to_result_arms) :
                          /\ ArmStatus[i] = self
                          /\ \A j \in 1..(i - 1) : ArmStatus[j] # self
         IN  to_result_arms[first][2]
    ELSE ""

\* the `_` arm returning Ok(())
to_result_default_ok(self) ==
    IF ArmOf(self) = "Ok" THEN Ok
    ELSE IF ArmOf(self) # "" THEN Err(ArmOf(self))
    ELSE Ok

\* the `_` arm returning the first kind instead of UnknownError
to_result_default_invalid(self) ==
    IF ArmOf(self) = "Ok" THEN Ok
    ELSE IF ArmOf(self) # "" THEN Err(ArmOf(self))
    ELSE Err("InvalidValue")

\* the right-hand sides of two neighbouring arms exchanged
to_result_swapped(self) ==
    IF ArmOf(self) = "Ok" THEN Ok
    ELSE IF ArmOf(self) = "NotMapped" THEN Err("NotMappedAsArray")
    ELSE IF ArmOf(self) = "NotMappedAsArray" THEN Err("NotMapped")
    ELSE IF ArmOf(self) # "" THEN Err(ArmOf(self))
    ELSE Err("UnknownError")

\* the `_` arm casting the status to the variant of that value, if any
to_result_cast(self) ==
    IF ArmOf(self) = "Ok" THEN Ok
    ELSE IF ArmOf(self) # "" THEN Err(ArmOf(self))
    ELSE IF \E k \in Variants : Discr(k) = self
         THEN Err(CHOOSE k \in Variants : Discr(k) = self)
    ELSE Err("UnknownError")

\* a conversion that keeps the last error until it is cleared
to_result_sticky(self) ==
    IF ArmOf(self) = "Ok" THEN (IF result.tag = "Err" THEN result ELSE Ok)
    ELSE IF ArmOf(self) # "" THEN Err(ArmOf(self))
    ELSE Err("UnknownError")

to_result(self) ==
    IF ArmOf(self) = "Ok" THEN Ok
    ELSE IF ArmOf(self) # "" THEN Err(ArmOf(self))
    ELSE Err("UnknownError")

(***************************************************************************)
(* The mocked driver.  cuGetErrorString(error, pStr) returns a status and, *)
(* on success, stores in *pStr a pointer to a NUL-terminated message.  A   *)
(* response is [st, cstr]: the status returned and the bytes found at the  *)
(* pointer stored (<<>> when the pointer slot is left null).               *)
(***************************************************************************)
Alphabet == {97, 39}                 \* 'a' and '\''

Messages == UNION { [1..n -> Alphabet] : n \in 0..MaxMsgLen }

FailStatuses == {StatusValue("CUDA_ERROR_INVALID_VALUE"), 12345}

Responses ==
    { [st |-> CUDA_SUCCESS, cstr |-> m \o <<0>>] : m \in Messages }
        \cup { [st |-> s, cstr |-> <<>>] : s \in FailStatuses }

\* the codes the mock answers one by one; every other code gets driver.other
MockedCodes == {2, 700}

Drivers == [mock : [MockedCodes -> Responses], other : Responses]

cuGetErrorString(error) ==
    IF error \in MockedCodes THEN driver.mock[error] ELSE driver.other

\* the message the driver holds for a code, without its terminator
MessageOf(error) == SubSeq(cuGetErrorString(error).cstr, 1,
                           Len(cuGetErrorString(error).cstr) - 1)

(***************************************************************************)
(* impl fmt::Display for CudaError                                         *)
(***************************************************************************)
\* CStr::from_ptr(ptr).to_bytes(): the bytes before the first NUL
RECURSIVE CStrBytes(_)
CStrBytes(mem) ==
    IF mem = <<>> \/ Head(mem) = 0 THEN <<>>
    ELSE <<Head(mem)>> \o CStrBytes(Tail(mem))

HexDigit(d) == IF d < 10 THEN 48 + d ELSE 97 + (d - 10)

\* std::ascii::escape_default, which Debug for CStr applies to every byte
escape_default(b) ==
    IF b = 9 THEN <<92, 116>>
    ELSE IF b = 13 THEN <<92, 114>>
    ELSE IF b = 10 THEN <<92, 110>>
    ELSE IF b = 39 THEN <<92, 39>>
    ELSE IF b = 34 THEN <<92, 34>>
    ELSE IF b = 92 THEN <<92, 92>>
    ELSE IF b >= 32 /\ b <= 126 THEN <<b>>
    ELSE <<92, 120, HexDigit(b \div 16), HexDigit(b % 16)>>

RECURSIVE EscapeAll(_)
EscapeAll(bytes) ==
    IF bytes = <<>> THEN <<>>
    ELSE escape_default(Head(bytes)) \o EscapeAll(Tail(bytes))

\* write!(f, "{:?}", cstr): the escaped bytes between two double quotes
DebugCStr(bytes) == <<34>> \o EscapeAll(bytes) \o <<34>>

\* "Invalid memory allocation"
InvalidMemoryAllocationText ==
    << 73, 110, 118, 97, 108, 105, 100, 32, 109, 101, 109, 111, 114, 121, 32,
       97, 108, 108, 111, 99, 97, 116, 105, 111, 110 >>

\* "__Nonexhaustive"
NonexhaustiveText ==
    << 95, 95, 78, 111, 110, 101, 120, 104, 97, 117, 115, 116, 105, 118, 101 >>

\* "Unknown error"
UnknownErrorText ==
    << 85, 110, 107, 110, 111, 119, 110, 32, 101, 114, 114, 111, 114 >>

Written(text) == [res |-> "Ok", out |-> text, lookups |-> <<>>, ptrRead |-> FALSE]

\* the arm without the `?`: the lookup's status is dropped
FmtDriverUnchecked(other) ==
    LET value == Discr(other)
        r     == cuGetErrorString(value)
    IN  [res |-> "Ok", out |-> DebugCStr(CStrBytes(r.cstr)),
         lookups |-> <<value>>, ptrRead |-> TRUE]

\* the arm `other if (other as u32) <= 999`
FmtDriver(other) ==
    LET value == Discr(other)
        r     == cuGetErrorString(value)
    IN  IF to_result(r.st).tag # "Ok"
        THEN [res |-> "Err", out |-> <<>>, lookups |-> <<value>>, ptrRead |-> FALSE]
        ELSE [res |-> "Ok", out |-> DebugCStr(CStrBytes(r.cstr)),
              lookups |-> <<value>>, ptrRead |-> TRUE]

\* the match with the guarded arm first and unguarded
FmtAllDriver(self) == FmtDriver(self)

fmt(self) ==
    IF self = "InvalidMemoryAllocation" THEN Written(InvalidMemoryAllocationText)
    ELSE IF self = "__Nonexhaustive" THEN Written(NonexhaustiveText)
    ELSE IF Discr(self) <= 999 THEN FmtDriver(self)
    ELSE Written(UnknownErrorText)

(***************************************************************************)
(* The caller: it converts statuses and renders kinds, in any order.       *)
(***************************************************************************)
Statuses == (0..MaxStatus) \cup {12345, 100100, 100101, 2147483647}

Init ==
    /\ op = "none"
    /\ status = CUDA_SUCCESS
    /\ result = NoResult
    /\ kind = ""
    /\ out = <<>>
    /\ fmtResult = "None"
    /\ lookups = <<>>
    /\ ptrRead = FALSE
    /\ driver \in Drivers
    /\ hist = <<>>

\* let r = s.to_result();
CallToResult(s) ==
    /\ op' = "to_result"
    /\ status' = s
    /\ result' = to_result(s)
    /\ kind' = ""
    /\ out' = <<>>
    /\ fmtResult' = "None"
    /\ lookups' = <<>>
    /\ ptrRead' = FALSE
    /\ UNCHANGED driver

\* let r = write!(buf, "{}", k);  with buf empty
CallFmt(k) ==
    /\ op' = "fmt"
    /\ kind' = k
    /\ out' = fmt(k).out
    /\ fmtResult' = fmt(k).res
    /\ lookups' = fmt(k).lookups
    /\ ptrRead' = fmt(k).ptrRead
    /\ status' = CUDA_SUCCESS
    /\ result' = NoResult
    /\ UNCHANGED driver

\* one call at a time: the caller makes it from scratch and then drops what
\* it got
Convert ==
    /\ op = "none"
    /\ \E s \in Statuses : CallToResult(s)
    /\ UNCHANGED hist

Render ==
    /\ op = "none"
    /\ \E k \in Variants : CallFmt(k)
    /\ UNCHANGED hist

Drop ==
    /\ op # "none"
    /\ op' = "none"
    /\ status' = CUDA_SUCCESS
    /\ result' = NoResult
    /\ kind' = ""
    /\ out' = <<>>
    /\ fmtResult' = "None"
    /\ lookups' = <<>>
    /\ ptrRead' = FALSE
    /\ UNCHANGED <<driver, hist>>

Next == Convert \/ Render \/ Drop

Spec == Init /\ [][Next]_vars

(***************************************************************************)
(* The same caller with its calls recorded, over a few inputs.             *)
(***************************************************************************)
HistStatuses == {0, 700, 12345}

HistKinds == {"OutOfMemory", "IllegalAddress", "InvalidMemoryAllocation"}

Entry ==
    [op |-> op', status |-> status', kind |-> kind', result |-> result',
     out |-> out', fmtResult |-> fmtResult', lookups |-> lookups',
     before |-> driver, after |-> driver']

ConvertRecorded ==
    /\ Len(hist) < MaxHist
    /\ \E s \in HistStatuses : CallToResult(s)
    /\ hist' = Append(hist, Entry)

RenderRecorded ==
    /\ Len(hist) < MaxHist
    /\ \E k \in HistKinds : CallFmt(k)
    /\ hist' = Append(hist, Entry)

NextHist == ConvertRecorded \/ RenderRecorded

SpecHist == Init /\ [][NextHist]_vars

(***************************************************************************)
(* Properties                                                              *)
(***************************************************************************)
\* the values of the variants declared under "// CUDA errors"
DocumentedCodes == { Discr(k) : k \in DriverKinds }

Converted == op = "to_result"

Rendered == op = "fmt"

\* C1: for every documented driver status code S other than success
\* (every value the driver-origin part of CudaError declares), to_result(S)
\* returns Err(K) with K as u32 = S.
C1_InjectionOnKnownCodes ==
    (Converted /\ status \in DocumentedCodes /\ status # CUDA_SUCCESS)
        => (result.tag = "Err" /\ Discr(result.kind) = status)

\* C2: to_result returns Ok(()) if and only if the status is CUDA_SUCCESS;
\* every other status yields Err.
C2_SuccessUniqueness ==
    Converted =>
        /\ result.tag \in {"Ok", "Err"}
        /\ (result = Ok) <=> (status = CUDA_SUCCESS)

C2_Witness_SuccessConverted ==
    /\ Converted
    /\ status = CUDA_SUCCESS
    /\ result = Ok

\* C3: every nonzero status outside the documented set yields
\* Err(UnknownError), the kind of value 999: never success, never another
\* kind.
C3_UnknownCollapse ==
    (Converted /\ status # 0 /\ status \notin DocumentedCodes)
        => (result = Err("UnknownError") /\ Discr(result.kind) = 999)

C3_Witness_UndocumentedStatus ==
    /\ Converted
    /\ status = 12345
    /\ status \notin DocumentedCodes
    /\ result = Err("UnknownError")

\* C4 as stated: for any status S for which to_result(S) returns an error
\* kind K, K as u32 = S.
C4_RoundTrip ==
    (Converted /\ result.tag = "Err") => Discr(result.kind) = status

\* C4 as amended: for any status S for which to_result(S) returns an error
\* kind K other than UnknownError, K as u32 = S.
C4_RoundTripOfSpecificKinds ==
    (Converted /\ result.tag = "Err" /\ result.kind # "UnknownError")
        => Discr(result.kind) = status

C4_Witness_SpecificKind ==
    /\ Converted
    /\ status = 212
    /\ result = Err("NotMappedAsArray")

\* C5: to_result returns Ok(()) or Err(K) with K a driver-origin kind
\* (K as u32 <= 999); never InvalidMemoryAllocation nor __Nonexhaustive.
C5_NeverBindingOrigin ==
    Converted =>
        \/ result = Ok
        \/ /\ result.tag = "Err"
           /\ result.kind \in DriverKinds
           /\ Discr(result.kind) <= 999
           /\ result.kind \notin {"InvalidMemoryAllocation", "__Nonexhaustive"}

C5_Witness_BindingValueAsStatus ==
    /\ Converted
    /\ status = Discr("InvalidMemoryAllocation")
    /\ result.tag = "Err"

\* C6: no binding-origin kind shares a value with a driver-origin kind;
\* driver-origin kinds have values in 1..999, binding-origin kinds values
\* >= 100000, and no two variants share a value.  Stated of the kind a caller
\* holds, which ranges over every variant.
C6_Disjointness ==
    Rendered =>
        /\ kind \in BindingKinds
               => /\ Discr(kind) >= 100000
                  /\ \A d \in DriverKinds : Discr(kind) # Discr(d)
        /\ kind \in DriverKinds => Discr(kind) \in 1..999
        /\ \A k \in Variants : Discr(k) = Discr(kind) => k = kind

C6_Witness_HiddenVariant ==
    /\ Rendered
    /\ kind = "__Nonexhaustive"
    /\ Discr(kind) = Discr("InvalidMemoryAllocation") + 1
    /\ Discr("InvalidMemoryAllocation") = 100100

\* C7: rendering a kind K with K as u32 <= 999 calls cuGetErrorString
\* exactly once, with K's status code, and when the lookup succeeds the output
\* is exactly the message the driver returned for that code.
C7_RenderDriverKind ==
    (Rendered /\ Discr(kind) <= 999) =>
        /\ lookups = <<Discr(kind)>>
        /\ cuGetErrorString(Discr(kind)).st = CUDA_SUCCESS
               => (fmtResult = "Ok" /\ out = MessageOf(Discr(kind)))

\* C8: when the lookup returns a non-success status, rendering a
\* driver-origin kind returns fmt::Error, writes nothing and does not read
\* the message pointer.
C8_RenderFailure ==
    (Rendered /\ Discr(kind) <= 999
              /\ cuGetErrorString(Discr(kind)).st # CUDA_SUCCESS)
        => (fmtResult = "Err" /\ out = <<>> /\ ~ptrRead)

C8_Witness_LookupFailed ==
    /\ Rendered
    /\ kind = "IllegalAddress"
    /\ cuGetErrorString(700).st = 12345
    /\ fmtResult = "Err"

\* C9: rendering InvalidMemoryAllocation succeeds with exactly
\* "Invalid memory allocation" and calls the driver not at all; the lookup
\* is called only for kinds with K as u32 <= 999.
C9_RenderBindingKind ==
    Rendered =>
        /\ kind = "InvalidMemoryAllocation"
               => /\ fmtResult = "Ok"
                  /\ out = InvalidMemoryAllocationText
                  /\ lookups = <<>>
        /\ lookups # <<>> => Discr(kind) <= 999

C9_Witness_BindingKindRendered ==
    /\ Rendered
    /\ kind = "InvalidMemoryAllocation"
    /\ Len(out) = 25

====
